---------------------------- MODULE Spec2Model ----------------------------
(***************************************************************************)
(* SakuyaEngine: the Client main loop and its scene table.                 *)
(*                                                                         *)
(* The repository holds two packages.  src/SakuyaEngine/client.py is the   *)
(* current Client (deferred scene removal through deleted_scenes_queue);   *)
(* it imports SakuyaEngine/scene.py, which registers scene CLASSES         *)
(* (add_scene calls the registered value) and whose scenes carry a         *)
(* `paused` flag.  That scene module is not among the sources, so the      *)
(* three facts the Client needs from it (registry keyed by class name,     *)
(* name derived from the type, pause flag) are taken from the              *)
(* specification.  src/client.py and src/scene.py are the root package: an *)
(* older Client with immediate removal and the Scene / SceneManager it     *)
(* works with; they are modelled by the root_ definitions further down.    *)
(*                                                                         *)
(* **kwargs payloads are opaque to the Client and are left out.            *)
(*                                                                         *)
(* Scene.test_collisions and Scene.advance_frame (src/scene.py) and the    *)
(* geometry functions of src/SakuyaEngine/math.py (move_toward,            *)
(* eval_segment_intersection, raycast, collide_segments) have their own    *)
(* specifications; the math is done over integers and exact fractions.     *)
(* The delta time at the head of the main loop has its own specification   *)
(* as well.                                                                *)
(***************************************************************************)
EXTENDS Integers, Sequences, FiniteSets, TLC

\* Scene classes a game may define and register.
Classes == {"Title", "Game"}

\* Bounds of the exploration.
MaxCalls == 3     \* Client API calls in one run
MaxFrames == 1    \* main-loop iterations

VARIABLES
    pc,                    \* position of the program: setup code, then Client.main
    is_running,            \* Client.is_running
    registered_scenes,     \* SceneManager.registered_scenes (its keys)
    running_scenes,        \* Client.running_scenes: insertion-ordered dict
    deleted_scenes_queue,  \* Client.deleted_scenes_queue
    inst,                  \* every scene instance created so far
    snapshot,              \* keys of copy(running_scenes) still to visit
    cur,                   \* instance whose update hook is running, 0 if none
    screen,                \* instances whose surface is on Client.screen
    frame,                 \* completed main-loop iterations
    error,                 \* exception that ended Client.main
    last,                  \* the last Client API call (by: the instance whose
                           \* update hook made it, 0 outside one) and what it raised
    ncalls                 \* number of Client API calls so far

\* The root package (src/client.py, src/scene.py).
VARIABLES
    root_registered,       \* SceneManager.registered_scenes: class name -> instance
    root_running,          \* Client.running_scenes: insertion-ordered dict
    root_error,            \* exception that ended Client.main
    root_frame,            \* completed main-loop iterations
    root_last,             \* the last Client API call and what it raised
    root_ncalls            \* number of Client API calls so far

\* One Scene and its entity collection (src/scene.py).
VARIABLES
    hitbox,                \* each entity's hitbox rectangle
    entities,              \* Scene.entities
    tested                 \* the last test_collisions call and its outcome

\* Scene.advance_frame over the same entity collection (src/scene.py).
VARIABLES
    destroyed,             \* the entities whose _is_destroyed flag is set
    phase,                 \* "idle", or "pass" while advance_frame runs
    objects,               \* entries of the copy self.entities[:] still to visit
    began,                 \* Scene.entities as it was when the pass began
    updated,               \* the update calls of the pass, in order
    meddled                \* an update of the pass set another entity's flag

\* Repeated calls of move_toward (src/SakuyaEngine/math.py).
VARIABLES
    start,                 \* the origin of the first call
    target,                \* the target of every call
    speed,                 \* the speed of every call
    value,                 \* the origin of the next call: the last value returned
    calls,                 \* number of move_toward calls so far
    outcome                \* how the last call ended

\* Two segments and the two segment tests (src/SakuyaEngine/math.py).
VARIABLES
    pts,                   \* <<point1, point2, point3, point4>>
    segcall,               \* the segment test called last
    crossing,              \* what eval_segment_intersection returned
    collides               \* what collide_segments returned

\* A ray cast against a list of walls (src/SakuyaEngine/math.py).
VARIABLES
    ray,                   \* <<coord1, coord2>>
    walls,                 \* the list of walls, each <<end, end>>
    raycalled,             \* raycast has been called
    highest_point          \* what raycast returned

\* The delta time of the SakuyaEngine Client (src/SakuyaEngine/client.py).
\* The two delta times are kept as exact numerators over DeltaDen.
VARIABLES
    max_fps,               \* Client.max_fps
    delta_time_modifier,   \* Client.delta_time_modifier
    raw_delta_time,        \* Client.raw_delta_time * DeltaDen
    delta_time             \* Client.delta_time * DeltaDen

clientvars == <<pc, is_running, registered_scenes, running_scenes,
                deleted_scenes_queue, inst, snapshot, cur, screen, frame,
                error, last, ncalls>>

rootvars == <<root_registered, root_running, root_error, root_frame,
              root_last, root_ncalls>>

scenevars == <<hitbox, entities, tested>>

advancevars == <<destroyed, phase, objects, began, updated, meddled>>

movevars == <<start, target, speed, value, calls, outcome>>

segvars == <<pts, segcall, crossing, collides>>

rayvars == <<ray, walls, raycalled, highest_point>>

mathvars == <<movevars, segvars, rayvars>>

deltavars == <<max_fps, delta_time_modifier, raw_delta_time, delta_time>>

vars == <<clientvars, rootvars, scenevars, advancevars, mathvars, deltavars>>

NotClient == <<rootvars, scenevars, advancevars, mathvars, deltavars>>
NotRoot == <<clientvars, scenevars, advancevars, mathvars, deltavars>>
NotScene == <<clientvars, rootvars, advancevars, mathvars, deltavars>>
NotAdvance == <<clientvars, rootvars, hitbox, tested, mathvars, deltavars>>
NotMath == <<clientvars, rootvars, scenevars, advancevars, deltavars>>
NotDelta == <<clientvars, rootvars, scenevars, advancevars, mathvars>>
NotMove == <<NotMath, segvars, rayvars>>
NotSeg == <<NotMath, movevars, rayvars>>
NotRay == <<NotMath, movevars, segvars>>

---------------------------------------------------------------------------
\* Python dict, insertion ordered: a sequence of [key, scene] entries.

Keys(rs) == [k \in 1..Len(rs) |-> rs[k].key]

HasKey(rs, n) == \E k \in 1..Len(rs) : rs[k].key = n

Lookup(rs, n) == rs[CHOOSE k \in 1..Len(rs) : rs[k].key = n].scene

SetItem(rs, n, i) ==
    IF HasKey(rs, n)
    THEN [k \in 1..Len(rs) |->
             IF rs[k].key = n THEN [key |-> n, scene |-> i] ELSE rs[k]]
    ELSE Append(rs, [key |-> n, scene |-> i])

DelItem(rs, n) == SelectSeq(rs, LAMBDA e : e.key # n)

Range(s) == {s[k] : k \in 1..Len(s)}

\* list.remove(x): drops the first element equal to x.
RemoveFirst(q, x) ==
    LET k == CHOOSE j \in 1..Len(q) : q[j] = x /\ \A h \in 1..(j-1) : q[h] # x
    IN  SubSeq(q, 1, k-1) \o SubSeq(q, k+1, Len(q))

---------------------------------------------------------------------------
\* The scene module of the SakuyaEngine package (see the header).

\* Scene.name: derived from the scene's type.
DerivedName(cls) == cls

\* A scene starts paused (Instantiated(paused) -> Running(unpaused)).
ScenePausedAtStart == TRUE

\* A scene instance on which on_awake has run.  Besides its class and pause
\* flag the record keeps what happened to it: the lifecycle hooks it received,
\* the frame it was made in, the frame of its last removal request (-1:
\* none), and its update and blit counts in the current frame.
Awake(cls, now) ==
    [cls |-> cls, paused |-> ScenePausedAtStart, hooks |-> <<"on_awake">>,
     born |-> now, asked_at |-> -1, updates |-> 0, blits |-> 0]

---------------------------------------------------------------------------
\* Client.add_scene / remove_scene / replace_scene as functions of the
\* Client's scene state c = [rs, q, inst, now] (now: the frame counter, read
\* only); `raised` is the exception the call ends with ("none" when it
\* returns).

Returns(c) == [c |-> c, raised |-> "none"]
Raises(c, e) == [c |-> c, raised |-> e]

add_scene(c, reg, n) ==
    IF n \notin reg
    THEN Raises(c, "KeyError")
    ELSE LET i == Len(c.inst) + 1
         IN  Returns([c EXCEPT
                        !.inst = Append(c.inst, Awake(n, c.now)),
                        !.rs   = SetItem(c.rs, DerivedName(n), i)])

\* Mutant: a missing key is swallowed instead of reported.
remove_scene_silent(c, n) ==
    IF ~HasKey(c.rs, n)
    THEN Returns(c)
    ELSE LET i == Lookup(c.rs, n)
         IN  Returns([c EXCEPT
                        !.inst[i].hooks = Append(@, "on_delete"),
                        !.inst[i].asked_at = c.now,
                        !.q = Append(c.q, DerivedName(c.inst[i].cls))])

\* Mutant: the entry is deleted at once, as the root package's Client does.
remove_scene_now(c, n) ==
    IF ~HasKey(c.rs, n)
    THEN Raises(c, "SceneNotActiveError")
    ELSE LET i == Lookup(c.rs, n)
         IN  Returns([c EXCEPT
                        !.inst[i].hooks = Append(@, "on_delete"),
                        !.inst[i].asked_at = c.now,
                        !.rs = DelItem(c.rs, n)])

remove_scene(c, n) ==
    IF ~HasKey(c.rs, n)
    THEN Raises(c, "SceneNotActiveError")
    ELSE LET i == Lookup(c.rs, n)
         IN  Returns([c EXCEPT
                        !.inst[i].hooks = Append(@, "on_delete"),
                        !.inst[i].asked_at = c.now,
                        !.q = Append(c.q, DerivedName(c.inst[i].cls))])

\* Mutant: the add is attempted whatever the remove did.
replace_scene_lenient(c, reg, old, new) ==
    LET r == remove_scene(c, old)
        a == add_scene(r.c, reg, new)
    IN  IF a.raised = "KeyError" THEN Raises(a.c, "SceneNotActiveError")
        ELSE IF r.raised # "none" THEN Raises(a.c, "SceneNotActiveError")
        ELSE a

replace_scene(c, reg, old, new) ==
    LET r == remove_scene(c, old)
    IN  IF r.raised # "none"
        THEN (IF r.raised = "KeyError"
              THEN Raises(r.c, "SceneNotActiveError") ELSE r)
        ELSE LET a == add_scene(r.c, reg, new)
             IN  IF a.raised = "KeyError"
                 THEN Raises(a.c, "SceneNotActiveError") ELSE a

\* `running_scenes == []`: a dict never equals a list, whatever they hold.
EqualsEmptyList(rs) == FALSE

\* Mutant: a scene whose removal is pending is passed over.
ShouldUpdate_pending(s) == ~s.paused /\ s.asked_at < 0

\* `if not s.paused` in the update loop.
ShouldUpdate(s) == ~s.paused

\* Mutant: the loop walks the live queue it removes from, not a copy.
RECURSIVE DrainLive(_, _, _)
DrainLive(k, q, rs) ==
    IF k > Len(q)
    THEN [q |-> q, rs |-> rs, raised |-> "none"]
    ELSE LET s == q[k]
         IN  DrainLive(k + 1, RemoveFirst(q, s),
                       IF HasKey(rs, s) THEN DelItem(rs, s) ELSE rs)

DrainLoop_nocopy(copy, q, rs) == DrainLive(1, q, rs)

\* Mutant: the KeyError of the del statement is not caught.
RECURSIVE DrainLoop_uncaught(_, _, _)
DrainLoop_uncaught(copy, q, rs) ==
    IF copy = <<>>
    THEN [q |-> q, rs |-> rs, raised |-> "none"]
    ELSE LET s == Head(copy)
         IN  IF s \notin Range(q)
             THEN [q |-> q, rs |-> rs, raised |-> "ValueError"]
             ELSE IF ~HasKey(rs, s)
             THEN [q |-> RemoveFirst(q, s), rs |-> rs, raised |-> "KeyError"]
             ELSE DrainLoop_uncaught(Tail(copy), RemoveFirst(q, s),
                                     DelItem(rs, s))

\* The drain loop of Client.main over the copy deleted_scenes_queue[:]:
\* list.remove raises ValueError, which nothing catches, for a name that is
\* not in the queue; the KeyError of del for a name that is not in the table
\* is caught and the loop goes on.
RECURSIVE DrainLoop(_, _, _)
DrainLoop(copy, q, rs) ==
    IF copy = <<>>
    THEN [q |-> q, rs |-> rs, raised |-> "none"]
    ELSE LET s == Head(copy)
         IN  IF s \notin Range(q)
             THEN [q |-> q, rs |-> rs, raised |-> "ValueError"]
             ELSE DrainLoop(Tail(copy), RemoveFirst(q, s),
                            IF HasKey(rs, s) THEN DelItem(rs, s) ELSE rs)

---------------------------------------------------------------------------
\* max_fps = -1, delta_time = 0, raw_delta_time = 0, delta_time_modifier = 1.
DeltaInit ==
    /\ max_fps = -1
    /\ delta_time = 0
    /\ raw_delta_time = 0
    /\ delta_time_modifier = 1

ClientInit ==
    /\ DeltaInit
    /\ pc = "setup"
    /\ is_running = TRUE
    /\ registered_scenes = {}
    /\ running_scenes = <<>>
    /\ deleted_scenes_queue = <<>>
    /\ inst = <<>>
    /\ snapshot = <<>>
    /\ cur = 0
    /\ screen = {}
    /\ frame = 0
    /\ error = "none"
    /\ last = [op |-> "none", a |-> "", b |-> "", by |-> 0, raised |-> "none"]
    /\ ncalls = 0

\* Game code runs before Client.main is called, inside update hooks, and
\* after Client.main has returned.
InGameCode == pc \in {"setup", "exited"} \/ cur # 0

State == [rs |-> running_scenes, q |-> deleted_scenes_queue, inst |-> inst,
          now |-> frame]

Apply(r, op, a, b) ==
    /\ running_scenes' = r.c.rs
    /\ deleted_scenes_queue' = r.c.q
    /\ inst' = r.c.inst
    /\ last' = [op |-> op, a |-> a, b |-> b, by |-> cur, raised |-> r.raised]
    /\ ncalls' = ncalls + 1
    /\ UNCHANGED <<pc, is_running, registered_scenes, snapshot, cur, screen,
                   frame, error>>
    /\ UNCHANGED NotClient

RegisterScene(cls) ==
    /\ pc = "setup"
    /\ cls \notin registered_scenes
    /\ registered_scenes' = registered_scenes \cup {cls}
    /\ UNCHANGED <<pc, is_running, running_scenes, deleted_scenes_queue, inst,
                   snapshot, cur, screen, frame, error, last, ncalls>>
    /\ UNCHANGED NotClient

AddScene(n) ==
    /\ InGameCode
    /\ ncalls < MaxCalls
    /\ Apply(add_scene(State, registered_scenes, n), "add_scene", n, "")

RemoveScene(n) ==
    /\ InGameCode
    /\ ncalls < MaxCalls
    /\ Apply(remove_scene(State, n), "remove_scene", n, "")

ReplaceScene(old, new) ==
    /\ InGameCode
    /\ ncalls < MaxCalls
    /\ Apply(replace_scene(State, registered_scenes, old, new),
             "replace_scene", old, new)

\* Game code sets scene.paused of an active scene.
SetPaused(i, b) ==
    /\ InGameCode
    /\ \E k \in 1..Len(running_scenes) : running_scenes[k].scene = i
    /\ inst[i].paused # b
    /\ inst' = [inst EXCEPT ![i].paused = b]
    /\ UNCHANGED <<pc, is_running, registered_scenes, running_scenes,
                   deleted_scenes_queue, snapshot, cur, screen, frame,
                   error, last, ncalls>>
    /\ UNCHANGED NotClient

\* Game code clears is_running (a quit handler).
Quit ==
    /\ cur # 0
    /\ is_running
    /\ is_running' = FALSE
    /\ UNCHANGED <<pc, registered_scenes, running_scenes, deleted_scenes_queue,
                   inst, snapshot, cur, screen, frame, error, last,
                   ncalls>>
    /\ UNCHANGED NotClient

\* The setup code calls Client.main.
Main ==
    /\ pc = "setup"
    /\ pc' = "top"
    /\ UNCHANGED <<is_running, registered_scenes, running_scenes,
                   deleted_scenes_queue, inst, snapshot, cur, screen,
                   frame, error, last, ncalls>>
    /\ UNCHANGED NotClient

\* `while self.is_running` is false: Client.main returns.
Exit ==
    /\ pc = "top"
    /\ ~is_running
    /\ pc' = "exited"
    /\ UNCHANGED <<is_running, registered_scenes, running_scenes,
                   deleted_scenes_queue, inst, snapshot, cur, screen, frame,
                   error, last, ncalls>>
    /\ UNCHANGED NotClient

\* An iteration begins: the empty-table test (the delta time computed before
\* it does not touch the scene state).
FrameStart ==
    /\ pc = "top"
    /\ is_running
    /\ frame < MaxFrames
    /\ pc' = IF EqualsEmptyList(running_scenes) THEN "failed" ELSE "events"
    /\ error' = IF EqualsEmptyList(running_scenes)
                THEN "NoActiveSceneError" ELSE error
    /\ UNCHANGED <<is_running, registered_scenes, running_scenes,
                   deleted_scenes_queue, inst, snapshot, cur, screen,
                   frame, last, ncalls>>
    /\ UNCHANGED NotClient

\* pygame.event.get() and the resize handling; then the update loop takes
\* its copy of running_scenes.
Events ==
    /\ pc = "events"
    /\ pc' = "update"
    /\ snapshot' = Keys(running_scenes)
    /\ UNCHANGED <<is_running, registered_scenes, running_scenes,
                   deleted_scenes_queue, inst, cur, screen, frame,
                   error, last, ncalls>>
    /\ UNCHANGED NotClient

\* One turn of the update loop up to the call of s.update(): s is looked up
\* in the live table; a paused scene is passed over.
UpdateBegin ==
    /\ pc = "update"
    /\ cur = 0
    /\ snapshot # <<>>
    /\ LET i == Lookup(running_scenes, Head(snapshot))
       IN  IF ShouldUpdate(inst[i])
           THEN /\ cur' = i
                /\ inst' = [inst EXCEPT ![i].updates = @ + 1]
                /\ UNCHANGED snapshot
           ELSE /\ snapshot' = Tail(snapshot)
                /\ UNCHANGED <<inst, cur>>
    /\ UNCHANGED <<pc, is_running, registered_scenes, running_scenes,
                   deleted_scenes_queue, screen, frame, error, last,
                   ncalls>>
    /\ UNCHANGED NotClient

\* s.update() has returned: screen.fill(...), screen.blit(s.screen, ...).
UpdateEnd ==
    /\ pc = "update"
    /\ cur # 0
    /\ screen' = {cur}
    /\ inst' = [inst EXCEPT ![cur].blits = @ + 1]
    /\ cur' = 0
    /\ snapshot' = Tail(snapshot)
    /\ UNCHANGED <<pc, is_running, registered_scenes, running_scenes,
                   deleted_scenes_queue, frame, error, last, ncalls>>
    /\ UNCHANGED NotClient

PassDone ==
    /\ pc = "update"
    /\ cur = 0
    /\ snapshot = <<>>
    /\ pc' = "drain"
    /\ UNCHANGED <<is_running, registered_scenes, running_scenes,
                   deleted_scenes_queue, inst, snapshot, cur, screen,
                   frame, error, last, ncalls>>
    /\ UNCHANGED NotClient

\* "Delete scenes in queue".
Drain ==
    /\ pc = "drain"
    /\ LET d == DrainLoop(deleted_scenes_queue, deleted_scenes_queue,
                          running_scenes)
       IN  /\ deleted_scenes_queue' = d.q
           /\ running_scenes' = d.rs
           /\ error' = IF d.raised = "none" THEN error ELSE d.raised
           /\ pc' = IF d.raised = "none" THEN "present" ELSE "failed"
    /\ UNCHANGED <<is_running, registered_scenes, inst, snapshot, cur, screen,
                   frame, last, ncalls>>
    /\ UNCHANGED NotClient

\* The cursor and window blits, display.update, the debug caption; the
\* iteration is over.
Present ==
    /\ pc = "present"
    /\ frame' = frame + 1
    /\ inst' = [i \in 1..Len(inst) |->
                  [inst[i] EXCEPT !.updates = 0, !.blits = 0]]
    /\ pc' = "top"
    /\ UNCHANGED <<is_running, registered_scenes, running_scenes,
                   deleted_scenes_queue, snapshot, cur, screen, error, last,
                   ncalls>>
    /\ UNCHANGED NotClient

Next ==
    \/ \E cls \in Classes : RegisterScene(cls)
    \/ \E n \in Classes : AddScene(n)
    \/ \E n \in Classes : RemoveScene(n)
    \/ \E old \in Classes, new \in Classes : ReplaceScene(old, new)
    \/ \E i \in 1..Len(inst), b \in BOOLEAN : SetPaused(i, b)
    \/ Quit
    \/ Main
    \/ Exit
    \/ FrameStart
    \/ Events
    \/ UpdateBegin
    \/ UpdateEnd
    \/ PassDone
    \/ Drain
    \/ Present


---------------------------------------------------------------------------
\* The root package: src/scene.py (Scene, SceneManager) and src/client.py.
\* Its hooks are the base class's (`pass`); the model counts their calls.

\* Scene.name: `__class__` in a method body is the class the method is
\* written in, so every subclass instance answers "Scene".
root_name(cls) == "Scene"

\* SceneManager.register_scene: one instance per class, made at registration.
root_register_scene(reg, cls) ==
    [k \in DOMAIN reg \cup {cls} |->
        IF k = cls
        THEN [is_paused |-> TRUE, awake |-> 0, deleted |-> 0, updates |-> 0]
        ELSE reg[k]]

RootState == [reg |-> root_registered, rs |-> root_running]

root_add_scene(c, n) ==
    IF n \notin DOMAIN c.reg
    THEN Raises(c, "KeyError")
    ELSE Returns([reg |-> [c.reg EXCEPT ![n].awake = @ + 1],
                  rs  |-> SetItem(c.rs, root_name(n), n)])

\* on_delete runs before the del, also when the del then raises KeyError.
root_remove_scene(c, n) ==
    IF n \notin DOMAIN c.reg
    THEN Raises(c, "KeyError")
    ELSE LET d == [c EXCEPT !.reg[n].deleted = @ + 1]
         IN  IF ~HasKey(c.rs, root_name(n))
             THEN Raises(d, "KeyError")
             ELSE Returns([d EXCEPT !.rs = DelItem(c.rs, root_name(n))])

\* replace_scene hands the scene objects, not their names, to remove_scene,
\* whose registry lookup then raises KeyError.
root_replace_scene(c, old, new) == Raises(c, "KeyError")

\* One pass of `for s in self.running_scenes` in Client.main.
root_update_pass(reg, rs) ==
    [k \in DOMAIN reg |->
        IF (\E j \in 1..Len(rs) : rs[j].scene = k) /\ reg[k].is_paused
        THEN [reg[k] EXCEPT !.updates = @ + 1]
        ELSE reg[k]]

RootInit ==
    /\ root_registered = <<>>
    /\ root_running = <<>>
    /\ root_error = "none"
    /\ root_frame = 0
    /\ root_last = [op |-> "none", a |-> "", b |-> "", raised |-> "none"]
    /\ root_ncalls = 0

RootApply(r, op, a, b) ==
    /\ root_registered' = r.c.reg
    /\ root_running' = r.c.rs
    /\ root_last' = [op |-> op, a |-> a, b |-> b, raised |-> r.raised]
    /\ root_ncalls' = root_ncalls + 1
    /\ UNCHANGED <<root_error, root_frame>>
    /\ UNCHANGED NotRoot

RootRegisterScene(cls) ==
    /\ cls \notin DOMAIN root_registered
    /\ root_registered' = root_register_scene(root_registered, cls)
    /\ UNCHANGED <<root_running, root_error, root_frame, root_last,
                   root_ncalls>>
    /\ UNCHANGED NotRoot

RootAddScene(n) ==
    /\ root_ncalls < MaxCalls
    /\ RootApply(root_add_scene(RootState, n), "add_scene", n, "")

RootRemoveScene(n) ==
    /\ root_ncalls < MaxCalls
    /\ RootApply(root_remove_scene(RootState, n), "remove_scene", n, "")

RootReplaceScene(old, new) ==
    /\ root_ncalls < MaxCalls
    /\ RootApply(root_replace_scene(RootState, old, new),
                 "replace_scene", old, new)

\* Game code sets scene.is_paused.
RootSetPaused(cls, b) ==
    /\ cls \in DOMAIN root_registered
    /\ root_registered[cls].is_paused # b
    /\ root_registered' = [root_registered EXCEPT ![cls].is_paused = b]
    /\ UNCHANGED <<root_running, root_error, root_frame, root_last,
                   root_ncalls>>
    /\ UNCHANGED NotRoot

\* One iteration of Client.main.
RootFrame ==
    /\ root_frame < MaxFrames
    /\ root_error = "none"
    /\ IF EqualsEmptyList(root_running)
       THEN /\ root_error' = "NoActiveSceneError"
            /\ UNCHANGED <<root_registered, root_frame>>
       ELSE /\ root_registered' = root_update_pass(root_registered, root_running)
            /\ root_frame' = root_frame + 1
            /\ UNCHANGED root_error
    /\ UNCHANGED <<root_running, root_last, root_ncalls>>
    /\ UNCHANGED NotRoot

RootNext ==
    \/ \E cls \in Classes : RootRegisterScene(cls)
    \/ \E n \in Classes : RootAddScene(n)
    \/ \E n \in Classes : RootRemoveScene(n)
    \/ \E old \in Classes, new \in Classes : RootReplaceScene(old, new)
    \/ \E cls \in Classes, b \in BOOLEAN : RootSetPaused(cls, b)
    \/ RootFrame

---------------------------------------------------------------------------
\* Scene.test_collisions (src/scene.py).

Entities == {"e1", "e2", "e3"}

Rect(x, y, w, h) == [x |-> x, y |-> y, w |-> w, h |-> h]
Rects == {Rect(0, 0, 10, 10), Rect(5, 5, 10, 10), Rect(20, 20, 5, 5)}

\* Entries the game may hold in Scene.entities at one time.
MaxEntities == 3

\* pygame.Rect.colliderect: the x-ranges and the y-ranges both overlap.
colliderect(a, b) ==
    /\ a.x < b.x + b.w /\ b.x < a.x + a.w
    /\ a.y < b.y + b.h /\ b.y < a.y + a.h

\* Mutant: an entity that is not in the scene is tested like any other.
test_collisions_unguarded(es, hb, entity) ==
    [raised   |-> "none",
     collided |-> SelectSeq(IF entity \in Range(es)
                            THEN RemoveFirst(es, entity) ELSE es,
                            LAMBDA e : colliderect(hb[entity], hb[e]))]

test_collisions(es, hb, entity) ==
    IF entity \notin Range(es)
    THEN [raised |-> "EntityNotInScene", collided |-> "no result"]
    ELSE LET rest == RemoveFirst(es, entity)
         IN  [raised   |-> "none",
              collided |-> SelectSeq(rest,
                              LAMBDA e : colliderect(hb[entity], hb[e]))]

SceneInit ==
    /\ hitbox \in [Entities -> Rects]
    /\ entities = <<>>
    /\ tested = [entity |-> "", raised |-> "none", collided |-> "no result"]

\* No scene in use: the Client specifications leave the entity model idle.
SceneIdle ==
    /\ hitbox = [e \in Entities |-> Rect(0, 0, 10, 10)]
    /\ entities = <<>>
    /\ tested = [entity |-> "", raised |-> "none", collided |-> "no result"]

\* Game code (on_awake, update) puts an entity into Scene.entities.
AppendEntity(e) ==
    /\ Len(entities) < MaxEntities
    /\ entities' = Append(entities, e)
    /\ UNCHANGED <<hitbox, tested>>
    /\ UNCHANGED NotScene

TestCollisions(e) ==
    /\ LET r == test_collisions(entities, hitbox, e)
       IN  tested' = [entity |-> e, raised |-> r.raised,
                      collided |-> r.collided]
    /\ UNCHANGED <<hitbox, entities>>
    /\ UNCHANGED NotScene

SceneNext ==
    \/ \E e \in Entities : AppendEntity(e)
    \/ \E e \in Entities : TestCollisions(e)

---------------------------------------------------------------------------
\* Scene.advance_frame (src/scene.py).

\* What one Entity.update call does to the destroyed flags: nothing, or it
\* sets the flag of the entity named (its own or another entity's).
Effects == {"none"} \cup Entities

Flagged(d, effect) == IF effect = "none" THEN d ELSE d \cup {effect}

\* One turn of the loop body: object.update(delta_time), then
\* self.entities.remove(object) if object._is_destroyed is set by then.
advance_step(es, d, object, effect) ==
    [destroyed |-> Flagged(d, effect),
     entities  |-> IF object \in Flagged(d, effect)
                   THEN RemoveFirst(es, object) ELSE es]

AdvanceInit ==
    /\ destroyed = {}
    /\ phase = "idle"
    /\ objects = <<>>
    /\ began = <<>>
    /\ updated = <<>>
    /\ meddled = FALSE

\* Game code adds an entity between two passes.
AddEntity(e) ==
    /\ phase = "idle"
    /\ AppendEntity(e)

\* advance_frame is called: the loop takes its copy of Scene.entities.
AdvanceBegin ==
    /\ phase = "idle"
    /\ phase' = "pass"
    /\ objects' = entities
    /\ began' = entities
    /\ updated' = <<>>
    /\ meddled' = FALSE
    /\ UNCHANGED <<destroyed, entities>>
    /\ UNCHANGED NotAdvance

\* The loop body for the next entry of the copy.
EntityUpdate(effect) ==
    /\ phase = "pass"
    /\ objects # <<>>
    /\ LET object == Head(objects)
           r == advance_step(entities, destroyed, object, effect)
       IN  /\ destroyed' = r.destroyed
           /\ entities' = r.entities
           /\ updated' = Append(updated, object)
           /\ meddled' = (meddled \/ effect \notin {"none", object})
    /\ objects' = Tail(objects)
    /\ UNCHANGED <<phase, began>>
    /\ UNCHANGED NotAdvance

\* The copy is exhausted: advance_frame returns.
AdvanceEnd ==
    /\ phase = "pass"
    /\ objects = <<>>
    /\ phase' = "idle"
    /\ UNCHANGED <<destroyed, entities, objects, began, updated, meddled>>
    /\ UNCHANGED NotAdvance

AdvanceNext ==
    \/ \E e \in Entities : AddEntity(e)
    \/ AdvanceBegin
    \/ \E effect \in Effects : EntityUpdate(effect)
    \/ AdvanceEnd


---------------------------------------------------------------------------
\* move_toward (src/SakuyaEngine/math.py), over the integers.

\* Origins and targets lie in -MaxCoord..MaxCoord.
MaxCoord == 4

\* Speeds lie in -2..MaxSpeed.
MaxSpeed == 3

\* Calls made in a row: more than the longest walk needs.
MaxMoves == 2 * MaxCoord + 2

Coords == -MaxCoord..MaxCoord
Speeds == -2..MaxSpeed

Abs(x) == IF x < 0 THEN -x ELSE x

Returned(v) == [outcome |-> "returned", value |-> v]

\* Mutant: the closing step is taken only when the target is nearer than
\* one step, not when it is exactly one step away.
move_toward_nosnap(origin, to, by) ==
    IF by < 0 THEN [outcome |-> "NegativeSpeedError", value |-> origin]
    ELSE IF Abs(to - origin) < by THEN Returned(to)
    ELSE IF to - origin > by THEN Returned(origin + by)
    ELSE IF to - origin < by THEN Returned(origin - by)
    ELSE [outcome |-> "None", value |-> origin]

\* Mutant: the speed is not checked.
move_toward_unchecked(origin, to, by) ==
    IF Abs(to - origin) <= by THEN Returned(to)
    ELSE IF to - origin > by THEN Returned(origin + by)
    ELSE IF to - origin < by THEN Returned(origin - by)
    ELSE [outcome |-> "None", value |-> origin]

\* The three tests in the order of the code; a call that passes none of them
\* falls off the end of the function and returns None.  value is the number
\* returned, and the origin where nothing is returned.
move_toward(origin, to, by) ==
    IF by < 0 THEN [outcome |-> "NegativeSpeedError", value |-> origin]
    ELSE IF Abs(to - origin) <= by THEN Returned(to)
    ELSE IF to - origin > by THEN Returned(origin + by)
    ELSE IF to - origin < by THEN Returned(origin - by)
    ELSE [outcome |-> "None", value |-> origin]

MoveIdle ==
    /\ start = 0
    /\ target = 0
    /\ speed = 0
    /\ value = 0
    /\ calls = 0
    /\ outcome = "not called"

MoveInit ==
    /\ start \in Coords
    /\ target \in Coords
    /\ speed \in Speeds
    /\ value = start
    /\ calls = 0
    /\ outcome = "not called"

\* The caller feeds the value returned back in as the origin.
MoveToward ==
    /\ outcome \in {"not called", "returned"}
    /\ calls < MaxMoves
    /\ LET r == move_toward(value, target, speed)
       IN  /\ value' = r.value
           /\ outcome' = r.outcome
    /\ calls' = calls + 1
    /\ UNCHANGED <<start, target, speed>>
    /\ UNCHANGED NotMove

MoveNext == MoveToward

---------------------------------------------------------------------------
\* eval_segment_intersection and collide_segments (src/SakuyaEngine/math.py),
\* over points with integer coordinates.  A value the code computes by a
\* division is kept as an exact fraction.

\* Point coordinates lie in 0..GridMax.
GridMax == 2

Points == (0..GridMax) \X (0..GridMax)

RECURSIVE GCD(_, _)
GCD(a, b) == IF b = 0 THEN a ELSE GCD(b, a % b)

\* The point (xn / d, yn / d) for d # 0, in lowest terms with a positive
\* denominator.
Frac(xn, yn, d) ==
    LET g == GCD(GCD(Abs(xn), Abs(yn)), Abs(d))
        s == IF d < 0 THEN -g ELSE g
    IN  [xn |-> xn \div s, yn |-> yn \div s, d |-> d \div s]

\* A point given by its two integer coordinates.
AsPoint(p) == Frac(p[1], p[2], 1)

\* 0 < n / d < 1, for d # 0.
StrictlyInside(n, d) ==
    IF d > 0 THEN 0 < n /\ n < d ELSE d < n /\ n < 0

Dem(a, b, c, e) == (a[1] - b[1]) * (c[2] - e[2]) - (a[2] - b[2]) * (c[1] - e[1])
TNum(a, b, c, e) == (a[1] - c[1]) * (c[2] - e[2]) - (a[2] - c[2]) * (c[1] - e[1])
UNum(a, b, c, e) == (a[1] - c[1]) * (a[2] - b[2]) - (a[2] - c[2]) * (a[1] - b[1])

\* Mutant: the ends of the two ranges count as inside (0 <= t <= 1 and
\* 0 <= u <= 1).
eval_segment_intersection_closed(point1, point2, point3, point4) ==
    LET dem == Dem(point1, point2, point3, point4)
        t   == TNum(point1, point2, point3, point4)
        u   == UNum(point1, point2, point3, point4)
        within(n) == IF dem > 0 THEN 0 <= n /\ n <= dem
                                ELSE dem <= n /\ n <= 0
    IN  IF dem = 0 THEN AsPoint(point2)
        ELSE IF within(t) /\ within(u)
             THEN Frac(dem * point3[1] + u * (point4[1] - point3[1]),
                       dem * point3[2] + u * (point4[2] - point3[2]), dem)
             ELSE AsPoint(point2)

\* t and u are the numerators before "t /= dem" and "u /= dem"; the point
\* returned is (x3 + u/dem * (x4 - x3), y3 + u/dem * (y4 - y3)).
eval_segment_intersection(point1, point2, point3, point4) ==
    LET dem == Dem(point1, point2, point3, point4)
        t   == TNum(point1, point2, point3, point4)
        u   == UNum(point1, point2, point3, point4)
    IN  IF dem = 0 THEN AsPoint(point2)
        ELSE IF StrictlyInside(t, dem) /\ StrictlyInside(u, dem)
             THEN Frac(dem * point3[1] + u * (point4[1] - point3[1]),
                       dem * point3[2] + u * (point4[2] - point3[2]), dem)
             ELSE AsPoint(point2)

\* The local function ccw of collide_segments.
ccw(a, b, c) == (c[2] - a[2]) * (b[1] - a[1]) > (b[2] - a[2]) * (c[1] - a[1])

collide_segments(point1, point2, point3, point4) ==
    /\ ccw(point1, point3, point4) # ccw(point2, point3, point4)
    /\ ccw(point1, point2, point3) # ccw(point1, point2, point4)

SegIdle ==
    /\ pts = <<<<0, 0>>, <<0, 0>>, <<0, 0>>, <<0, 0>>>>
    /\ segcall = "none"
    /\ crossing = AsPoint(<<0, 0>>)
    /\ collides = FALSE

SegInit ==
    /\ pts \in Points \X Points \X Points \X Points
    /\ segcall = "none"
    /\ crossing = AsPoint(<<0, 0>>)
    /\ collides = FALSE

EvalSegmentIntersection ==
    /\ segcall' = "eval_segment_intersection"
    /\ crossing' = eval_segment_intersection(pts[1], pts[2], pts[3], pts[4])
    /\ UNCHANGED <<pts, collides>>
    /\ UNCHANGED NotSeg

CollideSegments ==
    /\ segcall' = "collide_segments"
    /\ collides' = collide_segments(pts[1], pts[2], pts[3], pts[4])
    /\ UNCHANGED <<pts, crossing>>
    /\ UNCHANGED NotSeg

SegNext ==
    \/ EvalSegmentIntersection
    \/ CollideSegments

---------------------------------------------------------------------------
\* raycast (src/SakuyaEngine/math.py).

\* Walls in the list given to raycast.
MaxWalls == 2

RayPoints == {0, 10, 20} \X {0, 10, 20}

\* The walls of the level: two along y = 10, one along x = 10, one along
\* y = 20, the two diagonals and two short slanted ones.
Walls == {<<<<0, 10>>, <<10, 10>>>>, <<<<20, 10>>, <<0, 10>>>>,
          <<<<10, 0>>, <<10, 20>>>>, <<<<0, 20>>, <<20, 20>>>>,
          <<<<0, 20>>, <<20, 0>>>>, <<<<0, 0>>, <<20, 20>>>>,
          <<<<0, 10>>, <<10, 0>>>>, <<<<10, 20>>, <<20, 10>>>>}

\* The square of the distance from the point with integer coordinates o to
\* the point r, as a fraction n / d.
Length2(o, r) ==
    [n |-> (o[1] * r.d - r.xn) * (o[1] * r.d - r.xn)
           + (o[2] * r.d - r.yn) * (o[2] * r.d - r.yn),
     d |-> r.d * r.d]

\* a > b for two lengths given by their squares (math.sqrt is increasing).
Longer(a, b) == a.n * b.d > b.n * a.d

\* Mutant: every wall that is hit replaces the point, without comparing the
\* lengths.
RECURSIVE raycast_loop_last(_, _, _, _)
raycast_loop_last(coord1, coord2, ws, best) ==
    IF ws = <<>> THEN best
    ELSE LET c == eval_segment_intersection(coord1, coord2,
                                            Head(ws)[1], Head(ws)[2])
         IN  raycast_loop_last(coord1, coord2, Tail(ws),
                 IF c # AsPoint(coord2) THEN c ELSE best)

\* The loop over the walls; best is highest_point, whose length from coord1
\* is sort_point_length.
RECURSIVE raycast_loop(_, _, _, _)
raycast_loop(coord1, coord2, ws, best) ==
    IF ws = <<>> THEN best
    ELSE LET c == eval_segment_intersection(coord1, coord2,
                                            Head(ws)[1], Head(ws)[2])
         IN  raycast_loop(coord1, coord2, Tail(ws),
                 IF Longer(Length2(coord1, best), Length2(coord1, c))
                 THEN c ELSE best)

raycast(coord1, coord2, ws) ==
    raycast_loop(coord1, coord2, ws, AsPoint(coord2))

RayIdle ==
    /\ ray = <<<<0, 0>>, <<0, 0>>>>
    /\ walls = <<>>
    /\ raycalled = FALSE
    /\ highest_point = AsPoint(<<0, 0>>)

RayInit ==
    /\ ray \in RayPoints \X RayPoints
    /\ walls \in UNION {[1..n -> Walls] : n \in 0..MaxWalls}
    /\ raycalled = FALSE
    /\ highest_point = AsPoint(<<0, 0>>)

Raycast ==
    /\ ~raycalled
    /\ raycalled' = TRUE
    /\ highest_point' = raycast(ray[1], ray[2], walls)
    /\ UNCHANGED <<ray, walls>>
    /\ UNCHANGED NotRay

RayNext == Raycast

---------------------------------------------------------------------------
\* The delta time at the head of the main loop (src/SakuyaEngine/client.py).

\* The divisor of "pg_clock.tick(max_fps) / 1000".
DeltaDen == 1000

\* pg_clock.tick reports 0..MaxTick milliseconds.
MaxTick == 3

\* Game code sets delta_time_modifier to a whole number in -1..MaxModifier.
MaxModifier == 2

\* Frame-rate settings of a game: the default -1, none, and two caps.
FpsSettings == {-1, 0, 30, 60}

\* pg_clock.tick(max_fps) / 1000 * max_fps for a tick of ms milliseconds,
\* as a numerator over DeltaDen.
raw_delta(ms, fps) == ms * fps

\* Game code assigns Client.max_fps.
SetMaxFps(fps) ==
    /\ max_fps' = fps
    /\ UNCHANGED <<delta_time_modifier, raw_delta_time, delta_time>>
    /\ UNCHANGED NotDelta

\* Game code assigns Client.delta_time_modifier.
SetModifier(k) ==
    /\ delta_time_modifier' = k
    /\ UNCHANGED <<max_fps, raw_delta_time, delta_time>>
    /\ UNCHANGED NotDelta

\* "Delta time" at the head of an iteration, the tick source reporting ms.
Tick(ms) ==
    /\ raw_delta_time' = raw_delta(ms, max_fps)
    /\ delta_time' = raw_delta(ms, max_fps) * delta_time_modifier
    /\ UNCHANGED <<max_fps, delta_time_modifier>>
    /\ UNCHANGED NotDelta

DeltaNext ==
    \/ \E fps \in FpsSettings : SetMaxFps(fps)
    \/ \E k \in -1..MaxModifier : SetModifier(k)
    \/ \E ms \in 0..MaxTick : Tick(ms)

---------------------------------------------------------------------------
MathIdle == MoveIdle /\ SegIdle /\ RayIdle

Init == ClientInit /\ RootInit /\ SceneIdle /\ AdvanceInit /\ MathIdle

InitScene == ClientInit /\ RootInit /\ SceneInit /\ AdvanceInit /\ MathIdle

NoGame == ClientInit /\ RootInit /\ SceneIdle /\ AdvanceInit

InitMove == NoGame /\ MoveInit /\ SegIdle /\ RayIdle

InitSeg == NoGame /\ MoveIdle /\ SegInit /\ RayIdle

InitRay == NoGame /\ MoveIdle /\ SegIdle /\ RayInit

\* The SakuyaEngine Client.
Spec == Init /\ [][Next]_vars

\* The root package's Client.
SpecRoot == Init /\ [][RootNext]_vars

\* A Scene's entity collection.
SpecScene == InitScene /\ [][SceneNext]_vars

\* A Scene's advance_frame passes.
SpecAdvance == Init /\ [][AdvanceNext]_vars

\* A value walked to a target by move_toward.
SpecMove == InitMove /\ [][MoveNext]_vars

\* Two segments put to the two segment tests.
SpecSeg == InitSeg /\ [][SegNext]_vars

\* A ray cast against a list of walls.
SpecRay == InitRay /\ [][RayNext]_vars

\* The delta time of the SakuyaEngine Client.
SpecDelta == Init /\ [][DeltaNext]_vars

---------------------------------------------------------------------------
\* Properties of the SakuyaEngine Client (Spec).

\* The step is a call of Client API operation op.
Called(op) == ncalls' = ncalls + 1 /\ last'.op = op

InTable(i) == \E k \in 1..Len(running_scenes) : running_scenes[k].scene = i

Count(s, x) == Cardinality({k \in 1..Len(s) : s[k] = x})

\* C1: remove_scene(name) with name not a key of running_scenes raises
\* SceneNotActiveError, runs no on_delete hook, and leaves running_scenes and
\* deleted_scenes_queue as they were.
C1_RemoveInactiveFails ==
    [][(Called("remove_scene") /\ ~HasKey(running_scenes, last'.a))
         => /\ last'.raised = "SceneNotActiveError"
            /\ inst' = inst
            /\ running_scenes' = running_scenes
            /\ deleted_scenes_queue' = deleted_scenes_queue]_vars

\* A remove_scene of an inactive name has failed while another scene is active.
C1_Witness ==
    /\ last.op = "remove_scene"
    /\ last.raised = "SceneNotActiveError"
    /\ ~HasKey(running_scenes, last.a)
    /\ running_scenes # <<>>

\* C2: remove_scene(name) on an active scene returns after running the
\* scene's on_delete and appending its name to deleted_scenes_queue, with
\* running_scenes unchanged; a key leaves running_scenes only in the drain
\* step of a main-loop iteration, which comes after the whole update pass.
C2_RemoveIsDeferred ==
    [][/\ (Called("remove_scene") /\ HasKey(running_scenes, last'.a))
           => LET i == Lookup(running_scenes, last'.a)
              IN  /\ last'.raised = "none"
                  /\ running_scenes' = running_scenes
                  /\ deleted_scenes_queue'
                        = Append(deleted_scenes_queue, last'.a)
                  /\ inst' = [inst EXCEPT
                                ![i].hooks = Append(@, "on_delete"),
                                ![i].asked_at = frame]
       /\ (\E n \in Classes : HasKey(running_scenes, n)
                               /\ ~HasKey(running_scenes', n))
           => /\ pc = "drain" /\ pc' = "present"
              /\ cur = 0 /\ snapshot = <<>>
              /\ frame' = frame]_vars

\* A removal has been requested inside an update hook and the scene is still
\* in the table, its name in the queue.
C2_Witness ==
    /\ pc = "update"
    /\ last.op = "remove_scene"
    /\ last.raised = "none"
    /\ HasKey(running_scenes, last.a)
    /\ last.a \in Range(deleted_scenes_queue)
    /\ inst[Lookup(running_scenes, last.a)].hooks = <<"on_awake", "on_delete">>

\* C3: a scene added and then removed by name in the same frame has received
\* on_awake and then on_delete; once that frame's drain step has run its name
\* is no key of running_scenes, and a later remove_scene of that name, the
\* name still absent, raises SceneNotActiveError.
C3_AddThenRemoveSameFrame ==
    [][/\ \A i \in 1..Len(inst') :
            inst'[i].asked_at = inst'[i].born
              => /\ Len(inst'[i].hooks) >= 2
                 /\ inst'[i].hooks[1] = "on_awake"
                 /\ inst'[i].hooks[2] = "on_delete"
       /\ (pc = "drain" /\ pc' = "present")
           => \A i \in 1..Len(inst) :
                 (inst[i].born = frame /\ inst[i].asked_at = frame)
                   => ~HasKey(running_scenes', DerivedName(inst[i].cls))
       /\ \A i \in 1..Len(inst) :
            ( /\ Called("remove_scene")
              /\ last'.a = DerivedName(inst[i].cls)
              /\ inst[i].asked_at = inst[i].born
              /\ frame > inst[i].born
              /\ ~HasKey(running_scenes, last'.a) )
              => /\ last'.raised = "SceneNotActiveError"
                 /\ inst' = inst]_vars

\* A scene was added and removed in one frame, the frame is over, the name is
\* gone from the table and a second remove_scene of it has failed.
C3_Witness ==
    \E i \in 1..Len(inst) :
        /\ inst[i].asked_at = inst[i].born
        /\ inst[i].hooks = <<"on_awake", "on_delete">>
        /\ frame > inst[i].born
        /\ ~HasKey(running_scenes, DerivedName(inst[i].cls))
        /\ last.op = "remove_scene"
        /\ last.a = DerivedName(inst[i].cls)
        /\ last.raised = "SceneNotActiveError"

\* C4: every scene instance has received on_awake exactly once, as its first
\* hook, and on_delete at most once.
C4_HooksAtMostOnce ==
    \A i \in 1..Len(inst) :
        /\ inst[i].hooks[1] = "on_awake"
        /\ Count(inst[i].hooks, "on_awake") = 1
        /\ Count(inst[i].hooks, "on_delete") <= 1

\* C5: an iteration that begins with an empty running_scenes ends Client.main
\* with NoActiveSceneError; it does not go on to its event step.
C5_EmptyTableFailsFast ==
    [][(pc = "top" /\ is_running /\ running_scenes = <<>> /\ pc' # pc)
         => (pc' = "failed" /\ error' = "NoActiveSceneError")]_vars

\* The order of the steps of Client.main.
PhaseOrder ==
    {<<"setup", "top">>, <<"top", "events">>, <<"top", "exited">>,
     <<"top", "failed">>, <<"events", "update">>, <<"update", "drain">>,
     <<"drain", "present">>, <<"present", "top">>}

C8_ReplaceInactiveFails ==
    [][(Called("replace_scene") /\ ~HasKey(running_scenes, last'.a))
         => /\ last'.raised = "SceneNotActiveError"
            /\ inst' = inst
            /\ running_scenes' = running_scenes
            /\ deleted_scenes_queue' = deleted_scenes_queue]_vars

\* A replace_scene of an inactive old scene by a registered new one has
\* failed.
C8_Witness ==
    /\ last.op = "replace_scene"
    /\ last.raised = "SceneNotActiveError"
    /\ ~HasKey(running_scenes, last.a)
    /\ last.b \in registered_scenes
    /\ inst = <<>>

---------------------------------------------------------------------------
\* Properties of the root package's Client (SpecRoot).

RootActive(cls) == \E j \in 1..Len(root_running) : root_running[j].scene = cls

\* C6: an iteration of the main loop calls update exactly once on every scene
\* that is in running_scenes and not paused, and on no paused scene.
C6_UpdateUnpausedOnly ==
    [][root_frame' = root_frame + 1
         => \A cls \in DOMAIN root_registered :
               root_registered'[cls].updates
                 = root_registered[cls].updates
                   + (IF RootActive(cls) /\ ~root_registered[cls].is_paused
                      THEN 1 ELSE 0)]_vars

\* C9: after add_scene(n) has returned, running_scenes has an entry under the
\* key n, the name the scene was registered under.
C9_AddedUnderRegisteredName ==
    (root_last.op = "add_scene" /\ root_last.raised = "none")
      => HasKey(root_running, root_last.a)

---------------------------------------------------------------------------
\* Properties of Scene.test_collisions (SpecScene).

\* C10: test_collisions(e) for an entity e that is not in Scene.entities
\* raises EntityNotInScene and returns no result.
C10_TestOutsiderFails ==
    [][\A e \in Entities :
          (TestCollisions(e) /\ e \notin Range(entities))
            => /\ tested'.entity = e
               /\ tested'.raised = "EntityNotInScene"
               /\ tested'.collided = "no result"]_vars

\* test_collisions has failed for an entity outside a scene that holds other
\* entities, one of them with an overlapping hitbox.
C10_Witness ==
    /\ tested.raised = "EntityNotInScene"
    /\ tested.entity \notin Range(entities)
    /\ \E k \in 1..Len(entities) :
          colliderect(hitbox[tested.entity], hitbox[entities[k]])

\* C11: test_collisions(e) for an entity e of the scene returns exactly the
\* scene entities other than e whose hitbox overlaps e's, in collection
\* order, and never e itself, whatever the collection holds (an entity that
\* appears more than once included).
C11_CollidedAreOverlappingOthers ==
    [][\A e \in Entities :
          (TestCollisions(e) /\ e \in Range(entities))
            => /\ tested'.raised = "none"
               /\ tested'.collided =
                     SelectSeq(entities,
                         LAMBDA o : o # e /\ colliderect(hitbox[e], hitbox[o]))]_vars

\* The loop of advance_frame has visited its whole copy.
PassEnded == phase = "pass" /\ objects = <<>>

\* C12: one advance pass calls update once for each entry of the collection
\* as it was when the pass began, in collection order (an entity the
\* collection holds twice is updated once per occurrence), and removes an
\* entity from the live collection right after its own update exactly when
\* its destroyed flag is then set; when updates set only their own entity's
\* flag, no destroyed entity is left when the pass ends and the entities not
\* destroyed are all kept in their original order.
C12_AdvancePass ==
    [][/\ (phase = "pass" /\ updated' # updated)
          => LET object == Head(objects)
             IN  /\ updated' = Append(updated, object)
                 /\ entities' = IF object \in destroyed'
                                 THEN RemoveFirst(entities, object)
                                 ELSE entities
       /\ PassEnded'
          => /\ updated' = began'
             /\ ~meddled'
                  => /\ \A k \in 1..Len(entities') :
                           entities'[k] \notin destroyed'
                     /\ entities' = SelectSeq(began',
                                       LAMBDA e : e \notin destroyed')]_vars

Min(a, b) == IF a < b THEN a ELSE b
Max(a, b) == IF a < b THEN b ELSE a

\* ceil(a / b) for a >= 0 and b > 0.
CeilDiv(a, b) == (a + b - 1) \div b

\* C13: with a speed s >= 0, the values move_toward returns when each is
\* fed back as the origin all lie between the first origin and the target
\* (no overshoot); with s > 0 the value is the target after at most
\* ceil(|target - origin| / s) calls and every later call returns the target
\* again; with s = 0 the value stays at the first origin.
C13_WalkToTarget ==
    speed >= 0
      => /\ outcome \in {"not called", "returned"}
         /\ Min(start, target) <= value /\ value <= Max(start, target)
         /\ speed > 0 /\ calls >= CeilDiv(Abs(target - start), speed)
              => value = target
         /\ speed = 0 => value = start

\* A walk of several steps has just reached its target, and not early: the
\* number of calls is the bound.
C13_Witness ==
    /\ speed > 1
    /\ Abs(target - start) > 2 * speed
    /\ calls = CeilDiv(Abs(target - start), speed)
    /\ value = target
    /\ target < start

\* C13 as first stated: with every speed s >= 0 the repeated calls reach the
\* target.
C13_ReachesTargetAtAnySpeed ==
    (speed >= 0 /\ calls = MaxMoves) => value = target

\* C14: a call with speed < 0 fails with NegativeSpeedError, whatever the
\* origin and target; a call with speed >= 0 returns a number: it neither
\* fails nor ends without a value.
C14_NegativeSpeedFails ==
    calls > 0
      => /\ speed < 0 => outcome = "NegativeSpeedError"
         /\ speed >= 0 => outcome = "returned"

\* A call with a negative speed has failed at once, for a target that is
\* not the origin.
C14_Witness ==
    /\ speed < 0
    /\ calls = 1
    /\ outcome = "NegativeSpeedError"
    /\ target # start

\* The same point, whatever the denominators.
SamePoint(a, b) == a.xn * b.d = b.xn * a.d /\ a.yn * b.d = b.yn * a.d

\* The point r lies on the closed segment from a to b.
OnSegment(r, a, b) ==
    /\ (r.xn - a[1] * r.d) * (b[2] - a[2]) = (r.yn - a[2] * r.d) * (b[1] - a[1])
    /\ Min(a[1], b[1]) * r.d <= r.xn /\ r.xn <= Max(a[1], b[1]) * r.d
    /\ Min(a[2], b[2]) * r.d <= r.yn /\ r.yn <= Max(a[2], b[2]) * r.d

\* dem # 0, 0 < t < 1 and 0 < u < 1.
Intersects(a, b, c, e) ==
    /\ Dem(a, b, c, e) # 0
    /\ StrictlyInside(TNum(a, b, c, e), Dem(a, b, c, e))
    /\ StrictlyInside(UNum(a, b, c, e), Dem(a, b, c, e))

\* An end of one of the two segments lies on the other segment.
EndOnOther(a, b, c, e) ==
    \/ OnSegment(AsPoint(a), c, e) \/ OnSegment(AsPoint(b), c, e)
    \/ OnSegment(AsPoint(c), a, b) \/ OnSegment(AsPoint(e), a, b)

\* C15: eval_segment_intersection(p1, p2, p3, p4) returns p2 when dem = 0;
\* otherwise it returns the point p3 + u * (p4 - p3) exactly when 0 < t < 1
\* and 0 < u < 1, and p2 in every other case.  Two segments that meet at an
\* end of either of them give p2, and a computed point lies on both
\* segments.
C15_IntersectionPoint ==
    segcall = "eval_segment_intersection"
      => LET a == pts[1]
             b == pts[2]
             c == pts[3]
             e == pts[4]
             dem == Dem(a, b, c, e)
             u == UNum(a, b, c, e)
         IN  /\ dem = 0 => crossing = AsPoint(b)
             /\ Intersects(a, b, c, e)
                  => /\ SamePoint(crossing,
                            Frac(dem * c[1] + u * (e[1] - c[1]),
                                 dem * c[2] + u * (e[2] - c[2]), dem))
                     /\ OnSegment(crossing, a, b)
                     /\ OnSegment(crossing, c, e)
             /\ ~Intersects(a, b, c, e) => SamePoint(crossing, AsPoint(b))
             /\ EndOnOther(a, b, c, e) => SamePoint(crossing, AsPoint(b))

\* Two segments that cross at a point with a coordinate that is not whole:
\* the point has been computed and is not p2.
C15_Witness ==
    /\ segcall = "eval_segment_intersection"
    /\ Intersects(pts[1], pts[2], pts[3], pts[4])
    /\ crossing.xn % crossing.d # 0
    /\ ~SamePoint(crossing, AsPoint(pts[2]))

\* The two segments lie on one line and share more than a point.
CollinearOverlap(a, b, c, e) ==
    /\ a # b /\ c # e
    /\ (c[1] - a[1]) * (b[2] - a[2]) = (c[2] - a[2]) * (b[1] - a[1])
    /\ (e[1] - a[1]) * (b[2] - a[2]) = (e[2] - a[2]) * (b[1] - a[1])
    /\ \E q \in {a, b, c, e} :
          /\ OnSegment(AsPoint(q), a, b) /\ OnSegment(AsPoint(q), c, e)
          /\ \E r \in {a, b, c, e} \ {q} :
                OnSegment(AsPoint(r), a, b) /\ OnSegment(AsPoint(r), c, e)

\* C20: collide_segments(p1, p2, p3, p4) is true exactly when
\* eval_segment_intersection finds an intersection (dem # 0, 0 < t < 1 and
\* 0 < u < 1); its result is the same when the two ends of either segment
\* are swapped; collinear overlapping segments give false.
C20_SegmentTestsAgree ==
    segcall = "collide_segments"
      => LET a == pts[1]
             b == pts[2]
             c == pts[3]
             e == pts[4]
         IN  /\ collides = Intersects(a, b, c, e)
             /\ collides = collide_segments(b, a, c, e)
             /\ collides = collide_segments(a, b, e, c)
             /\ CollinearOverlap(a, b, c, e) => ~collides

\* The walls of the list that the ray properly intersects.
WallsHit ==
    {k \in 1..Len(walls) :
        Intersects(ray[1], ray[2], walls[k][1], walls[k][2])}

\* The point on both the ray and wall k.
HitPoint(k) ==
    eval_segment_intersection(ray[1], ray[2], walls[k][1], walls[k][2])

\* The list of walls in the order given by the permutation f.
Reordered(f) == [k \in 1..Len(walls) |-> walls[f[k]]]

\* C16: raycast(origin, target, walls) returns target when no wall properly
\* intersects the segment from origin to target; otherwise it returns the
\* proper intersection point nearest to origin among all walls, a point on
\* the ray and on that wall; the result is the same for every order of the
\* walls; the ray (0,0) -> (10,20) against the one wall (0,10)-(10,10)
\* gives (5,10).
C16_NearestHit ==
    raycalled
      => /\ WallsHit = {} => highest_point = AsPoint(ray[2])
         /\ WallsHit # {}
              => \E k \in WallsHit :
                    /\ SamePoint(highest_point, HitPoint(k))
                    /\ OnSegment(highest_point, ray[1], ray[2])
                    /\ OnSegment(highest_point, walls[k][1], walls[k][2])
                    /\ \A j \in WallsHit :
                          ~Longer(Length2(ray[1], highest_point),
                                  Length2(ray[1], HitPoint(j)))
         /\ \A f \in Permutations(1..Len(walls)) :
               SamePoint(raycast(ray[1], ray[2], Reordered(f)), highest_point)
         /\ (ray = <<<<0, 0>>, <<10, 20>>>>
                /\ walls = <<<<<<0, 10>>, <<10, 10>>>>>>)
              => SamePoint(highest_point, AsPoint(<<5, 10>>))

\* The ray hits two walls at different distances, the farther one first in
\* the list; the nearer point, which is not the target, has been returned.
C16_Witness ==
    /\ raycalled
    /\ Len(walls) = 2
    /\ WallsHit = {1, 2}
    /\ Longer(Length2(ray[1], HitPoint(1)), Length2(ray[1], HitPoint(2)))
    /\ SamePoint(highest_point, HitPoint(2))
    /\ ~SamePoint(highest_point, AsPoint(ray[2]))

\* C17: the drain step of a main-loop iteration never ends the loop with an
\* error: it takes every queued name out of running_scenes, passes over a
\* queued name that is no longer there (one queued twice, say), leaves the
\* other scenes in place and leaves deleted_scenes_queue empty.
C17_DrainNeverAborts ==
    [][Drain
         => /\ pc' = "present"
            /\ error' = error
            /\ deleted_scenes_queue' = <<>>
            /\ running_scenes' =
                  SelectSeq(running_scenes,
                      LAMBDA en : en.key \notin Range(deleted_scenes_queue))]_vars

\* A drain has gone through a name that was queued twice in the frame and
\* has left another scene in the table.
C17_Witness ==
    /\ pc = "present"
    /\ error = "none"
    /\ deleted_scenes_queue = <<>>
    /\ running_scenes # <<>>
    /\ \E i \in 1..Len(inst) :
          /\ Count(inst[i].hooks, "on_delete") = 2
          /\ inst[i].asked_at = frame
          /\ ~InTable(i)

\* C18: when the update pass of a frame is over, Client.screen holds the
\* surface of every scene that was updated and composited in that pass:
\* compositing a later scene has not erased an earlier one.
C18_ScreenHoldsEveryScene ==
    pc = "drain"
      => \A i \in 1..Len(inst) : inst[i].blits >= 1 => i \in screen

\* C19: the drain never takes out of running_scenes an instance whose
\* removal was not asked for: an instance added after a remove_scene of its
\* name, by replace_scene or by add_scene in the same frame, is still in
\* the table after the drain, also when it has the name of the scene removed.
C19_DrainKeepsNewInstance ==
    [][Drain
         => \A i \in 1..Len(inst) :
               (InTable(i) /\ inst[i].asked_at = -1) => InTable(i)']_vars

\* C21: the delta time computed at the head of a main-loop iteration is not
\* negative when the elapsed time the tick source reports and the
\* delta-time modifier are not negative, whatever max_fps is, the default
\* -1 included.
C21_DeltaTimeNonNegative ==
    [][\A ms \in 0..MaxTick :
          (Tick(ms) /\ delta_time_modifier >= 0) => delta_time' >= 0]_vars

===========================================================================
